---- MODULE Spec2Model ----
(***************************************************************************)
(* Keyboard-report state engine of keyboardio-hid-rs: the four keyboard    *)
(* variants (boot, NKRO, media, system control), their press / release     *)
(* engines and the diff-and-send protocol, with the USB transport as a     *)
(* sink that accepts or rejects each report handed to it.                  *)
(***************************************************************************)
EXTENDS Integers, Sequences, FiniteSets, TLC

VARIABLES variant, report, last_report, host, call, panicked, protocol, default_protocol

vars == <<variant, report, last_report, host, call, panicked, protocol, default_protocol>>

\* Number of keys of each variant's key list that callers pass to press/release.
MaxKeys == 3

(***************************************************************************)
(* u8 arithmetic                                                           *)
(***************************************************************************)
RECURSIVE BitAnd(_, _)
BitAnd(a, b) ==
    IF a = 0 \/ b = 0 THEN 0
    ELSE (a % 2) * (b % 2) + 2 * BitAnd(a \div 2, b \div 2)

RECURSIVE BitOr(_, _)
BitOr(a, b) ==
    IF a = 0 THEN b
    ELSE IF b = 0 THEN a
    ELSE (IF a % 2 = 1 \/ b % 2 = 1 THEN 1 ELSE 0) + 2 * BitOr(a \div 2, b \div 2)

RECURSIVE BitXor(_, _)
BitXor(a, b) ==
    IF a = 0 THEN b
    ELSE IF b = 0 THEN a
    ELSE ((a + b) % 2) + 2 * BitXor(a \div 2, b \div 2)

BitNot(a) == 255 - a

(***************************************************************************)
(* Key usages and domain predicates (keyboard.rs)                          *)
(***************************************************************************)
KeypadHexadecimal == 221
KeyboardLeftControl == 224
KeyboardRightGUI == 231

\* usbd_hid MediaKey: the u8 values that MediaKey::from maps to a non-Reserved key.
MediaKeyValues == {0, 176, 177, 178, 181, 182, 183, 185, 188, 205, 226, 233, 234}

\* usbd_hid SystemControlKey: the u8 values mapped to a non-Reserved key.
SystemControlKeyValues == (129..143) \cup (160..168) \cup (176..183)

is_printable(key) == key <= KeypadHexadecimal

is_modifier(key) == key >= KeyboardLeftControl /\ key <= KeyboardRightGUI

is_media(key) == key \in MediaKeyValues

is_system_control(key) == key \in SystemControlKeyValues

key_to_index(key) == key \div 8

key_to_printable_bitfield(key) == 2 ^ (key % 8)

key_to_modifier_bitfield(key) == 2 ^ (key - KeyboardLeftControl)

ZERO_KEYS == <<0, 0, 0, 0, 0, 0>>

\* KeyboardReport::default()
DefaultReport == [modifier |-> 0, keycodes |-> ZERO_KEYS]

Variants == {"boot", "nkro", "media", "system_control"}

(***************************************************************************)
(* keyboardio-utils: xor_swap and sort_keycodes                            *)
(***************************************************************************)
\* Mutant: the three XOR steps run without the test that the values differ.
xor_swap_unguarded(slice, left_idx, right_idx) ==
    LET len == Len(slice) IN
    IF left_idx < len /\ right_idx < len
    THEN LET s1 == [slice EXCEPT ![left_idx + 1] = BitXor(slice[left_idx + 1], slice[right_idx + 1])]
             s2 == [s1 EXCEPT ![right_idx + 1] = BitXor(s1[right_idx + 1], s1[left_idx + 1])]
             s3 == [s2 EXCEPT ![left_idx + 1] = BitXor(s2[left_idx + 1], s2[right_idx + 1])]
         IN s3
    ELSE slice

xor_swap(slice, left_idx, right_idx) ==
    LET len == Len(slice) IN
    IF left_idx < len /\ right_idx < len /\ slice[left_idx + 1] # slice[right_idx + 1]
    THEN LET s1 == [slice EXCEPT ![left_idx + 1] = BitXor(slice[left_idx + 1], slice[right_idx + 1])]
             s2 == [s1 EXCEPT ![right_idx + 1] = BitXor(s1[right_idx + 1], s1[left_idx + 1])]
             s3 == [s2 EXCEPT ![left_idx + 1] = BitXor(s2[left_idx + 1], s2[right_idx + 1])]
         IN s3
    ELSE slice

\* Mutant: no search for a non-zero slot from the back.
sort_back_scan_none(keys, front_idx, back_idx) == back_idx

RECURSIVE sort_back_scan(_, _, _)
sort_back_scan(keys, front_idx, back_idx) ==
    IF keys[back_idx + 1] = 0 /\ back_idx > front_idx
    THEN sort_back_scan(keys, front_idx, back_idx - 1)
    ELSE back_idx

RECURSIVE sort_loop(_, _, _)
sort_loop(keys, front_idx, back_idx) ==
    IF front_idx < back_idx
    THEN IF keys[front_idx + 1] = 0
         THEN LET b == sort_back_scan(keys, front_idx, back_idx)
              IN sort_loop(xor_swap(keys, front_idx, b), front_idx + 1, b)
         ELSE sort_loop(keys, front_idx + 1, back_idx)
    ELSE keys

sort_keycodes(keys) == sort_loop(keys, 0, Len(keys) - 1)

(***************************************************************************)
(* Accessors and change detection (keyboard.rs, boot.rs, system_control.rs)*)
(***************************************************************************)
\* Keyboard::last_report of keyboard.rs, the type NKRO and media are implemented for.
Keyboard_last_report(rep, last) == rep

\* KeyboardOps::last_report of the boot keyboard.
boot_last_report(rep, last) == last

\* KeyboardOps::last_report of the system-control keyboard.
system_control_last_report(rep, last) == last

\* self.last_report() as resolved for each variant's Keyboard type: NKRO and media
\* are implemented for the Keyboard of keyboard.rs and reach its inherent accessor;
\* boot and system control define their own Keyboard and their own accessor, which
\* keycodes_changed and release_all of KeyboardOps go through.
last_report_ref(v, rep, last) ==
    CASE v = "boot" -> boot_last_report(rep, last)
      [] v = "system_control" -> system_control_last_report(rep, last)
      [] OTHER -> Keyboard_last_report(rep, last)

RECURSIVE changed_fold(_, _, _)
changed_fold(lastk, curk, i) ==
    IF i = 0 THEN 0
    ELSE BitOr(changed_fold(lastk, curk, i - 1), BitXor(lastk[i], curk[i]))

keycodes_changed(v, rep, last) ==
    changed_fold(last_report_ref(v, rep, last).keycodes, rep.keycodes, Len(rep.keycodes)) # 0

release_all(rep) == [rep EXCEPT !.modifier = 0, !.keycodes = ZERO_KEYS]

(***************************************************************************)
(* Press / release, slot-array variants                                    *)
(***************************************************************************)
\* Mutant: a press that finds neither the key nor a zero slot takes the last slot.
press_scan_overwrite(keycodes, key, i) ==
    LET hits == {j \in i..Len(keycodes) : keycodes[j] = key \/ keycodes[j] = 0}
        first == CHOOSE j \in hits : \A h \in hits : j <= h
    IN IF hits = {}
       THEN [keycodes |-> [keycodes EXCEPT ![Len(keycodes)] = key], done |-> TRUE]
       ELSE IF keycodes[first] = key THEN [keycodes |-> keycodes, done |-> TRUE]
       ELSE [keycodes |-> [keycodes EXCEPT ![first] = key], done |-> TRUE]

\* Mutant: the scan does not stop at a slot that already holds the key.
press_scan_no_match(keycodes, key, i) ==
    LET zeros == {j \in i..Len(keycodes) : keycodes[j] = 0}
        first == CHOOSE j \in zeros : \A h \in zeros : j <= h
    IN IF zeros = {}
       THEN [keycodes |-> keycodes, done |-> FALSE]
       ELSE [keycodes |-> [keycodes EXCEPT ![first] = key], done |-> TRUE]

RECURSIVE press_scan(_, _, _)
press_scan(keycodes, key, i) ==
    IF i > Len(keycodes) THEN [keycodes |-> keycodes, done |-> FALSE]
    ELSE IF keycodes[i] = key THEN [keycodes |-> keycodes, done |-> TRUE]
    ELSE IF keycodes[i] = 0 THEN [keycodes |-> [keycodes EXCEPT ![i] = key], done |-> TRUE]
    ELSE press_scan(keycodes, key, i + 1)

\* Mutant: the slots are cleared and left where they are.
release_scan_unsorted(keycodes, key) ==
    [i \in 1..Len(keycodes) |-> IF keycodes[i] = key THEN 0 ELSE keycodes[i]]

release_scan(keycodes, key) ==
    sort_keycodes([i \in 1..Len(keycodes) |-> IF keycodes[i] = key THEN 0 ELSE keycodes[i]])

Handled(rep, n) == [report |-> rep, handled |-> n, panic |-> FALSE]

boot_press(rep, key) ==
    IF is_modifier(key)
    THEN Handled([rep EXCEPT !.modifier = BitOr(rep.modifier, key_to_modifier_bitfield(key))], 1)
    ELSE LET s == press_scan(rep.keycodes, key, 1)
         IN Handled([rep EXCEPT !.keycodes = s.keycodes], IF s.done THEN 1 ELSE 0)

\* Mutant: the release of a key empties every slot.
boot_release_every_slot(rep, key) ==
    IF is_modifier(key)
    THEN Handled([rep EXCEPT !.modifier = BitAnd(rep.modifier, BitNot(key_to_modifier_bitfield(key)))], 1)
    ELSE Handled([rep EXCEPT !.keycodes = ZERO_KEYS], 1)

boot_release(rep, key) ==
    IF is_modifier(key)
    THEN Handled([rep EXCEPT !.modifier = BitAnd(rep.modifier, BitNot(key_to_modifier_bitfield(key)))], 1)
    ELSE Handled([rep EXCEPT !.keycodes = release_scan(rep.keycodes, key)], 1)

\* Mutant: the key goes into the first zero slot whether or not a slot holds it.
media_press_first_free(rep, key) ==
    IF is_media(key)
    THEN LET s == press_scan_no_match(rep.keycodes, key, 1)
         IN Handled([rep EXCEPT !.keycodes = s.keycodes], IF s.done THEN 1 ELSE 0)
    ELSE Handled(rep, 0)

media_press(rep, key) ==
    IF is_media(key)
    THEN LET s == press_scan(rep.keycodes, key, 1)
         IN Handled([rep EXCEPT !.keycodes = s.keycodes], IF s.done THEN 1 ELSE 0)
    ELSE Handled(rep, 0)

\* Mutant: a release empties every slot.
media_release_every_slot(rep, key) ==
    IF is_media(key)
    THEN Handled([rep EXCEPT !.keycodes = ZERO_KEYS], 1)
    ELSE Handled(rep, 1)

media_release(rep, key) ==
    IF is_media(key)
    THEN Handled([rep EXCEPT !.keycodes = release_scan(rep.keycodes, key)], 1)
    ELSE Handled(rep, 1)

system_control_press(rep, key) ==
    IF is_system_control(key)
    THEN LET s == press_scan(rep.keycodes, key, 1)
         IN Handled([rep EXCEPT !.keycodes = s.keycodes], IF s.done THEN 1 ELSE 0)
    ELSE Handled(rep, 0)

\* Mutant: a release reports handled only when a slot held the key.
system_control_release_if_held(rep, key) ==
    IF is_system_control(key)
    THEN Handled([rep EXCEPT !.keycodes = release_scan(rep.keycodes, key)],
                 IF \E i \in 1..Len(rep.keycodes) : rep.keycodes[i] = key THEN 1 ELSE 0)
    ELSE Handled(rep, 1)

system_control_release(rep, key) ==
    IF is_system_control(key)
    THEN Handled([rep EXCEPT !.keycodes = release_scan(rep.keycodes, key)], 1)
    ELSE Handled(rep, 1)

(***************************************************************************)
(* Press / release, NKRO variant.  keycodes is the 6-byte array of         *)
(* KeyboardReport; an index past its end panics.                           *)
(***************************************************************************)
Panic(rep) == [report |-> rep, handled |-> 0, panic |-> TRUE]

nkro_press(rep, key) ==
    IF is_printable(key)
    THEN IF key_to_index(key) >= Len(rep.keycodes) THEN Panic(rep)
         ELSE Handled([rep EXCEPT !.keycodes[key_to_index(key) + 1] =
                          BitOr(@, key_to_printable_bitfield(key))], 1)
    ELSE IF is_modifier(key)
    THEN Handled([rep EXCEPT !.modifier = BitOr(@, key_to_modifier_bitfield(key))], 1)
    ELSE Handled(rep, 0)

\* Mutant: a release flips the key's bit instead of clearing it.
nkro_release_toggle(rep, key) ==
    IF is_printable(key)
    THEN IF key_to_index(key) >= Len(rep.keycodes) THEN Panic(rep)
         ELSE Handled([rep EXCEPT !.keycodes[key_to_index(key) + 1] =
                          BitXor(@, key_to_printable_bitfield(key))], 1)
    ELSE IF is_modifier(key)
    THEN Handled([rep EXCEPT !.modifier = BitXor(@, key_to_modifier_bitfield(key))], 1)
    ELSE Handled(rep, 0)

nkro_release(rep, key) ==
    IF is_printable(key)
    THEN IF key_to_index(key) >= Len(rep.keycodes) THEN Panic(rep)
         ELSE Handled([rep EXCEPT !.keycodes[key_to_index(key) + 1] =
                          BitAnd(@, BitNot(key_to_printable_bitfield(key)))], 1)
    ELSE IF is_modifier(key)
    THEN Handled([rep EXCEPT !.modifier = BitAnd(@, BitNot(key_to_modifier_bitfield(key)))], 1)
    ELSE Handled(rep, 0)

press(v, rep, key) ==
    CASE v = "boot" -> boot_press(rep, key)
      [] v = "nkro" -> nkro_press(rep, key)
      [] v = "media" -> media_press(rep, key)
      [] v = "system_control" -> system_control_press(rep, key)

release(v, rep, key) ==
    CASE v = "boot" -> boot_release(rep, key)
      [] v = "nkro" -> nkro_release(rep, key)
      [] v = "media" -> media_release(rep, key)
      [] v = "system_control" -> system_control_release(rep, key)

(***************************************************************************)
(* Transport sink: push_input accepts or rejects the report handed to it.  *)
(* A send state s is [last, sent, ret]: the previous report, the reports   *)
(* handed to the transport so far in this call, and the call's result.     *)
(***************************************************************************)
MaxSends == 3

push_input(s, rep, oks) ==
    LET ok == oks[Len(s.sent) + 1]
    IN [s EXCEPT !.sent = Append(@, [report |-> rep, ok |-> ok]),
                 !.ret = IF ok THEN "Ok" ELSE "Err"]

SendStart(last) == [last |-> last, sent |-> <<>>, ret |-> "Ok"]

(***************************************************************************)
(* send_report, slot-array variants                                        *)
(***************************************************************************)
\* Mutant: the report is sent but never stored as the previous report.
boot_send_report_unsaved(rep, last, oks) ==
    IF keycodes_changed("boot", rep, last)
    THEN push_input(SendStart(last), rep, oks)
    ELSE SendStart(last)

boot_send_report(rep, last, oks) ==
    IF keycodes_changed("boot", rep, last)
    THEN [push_input(SendStart(last), rep, oks) EXCEPT !.last = rep]
    ELSE SendStart(last)

media_send_report(rep, last, oks) ==
    IF keycodes_changed("media", rep, last)
    THEN [push_input(SendStart(last), rep, oks) EXCEPT !.last = rep]
    ELSE SendStart(last)

system_control_send_report(rep, last, oks) ==
    IF keycodes_changed("system_control", rep, last)
    THEN [push_input(SendStart(last), rep, oks) EXCEPT !.last = rep]
    ELSE SendStart(last)

(***************************************************************************)
(* send_report, NKRO variant                                               *)
(***************************************************************************)
\* NKROKeyboard::send_report_unchecked pushes the stored previous report.
nkro_send_report_unchecked(s, oks) == push_input(s, s.last, oks)

nkro_released_keycodes(last_key, key) == BitAnd(last_key, BitNot(key))

\* Mutant: the released keys are left in the stored previous report.
nkro_clear_released_kept(last, rep) == last

nkro_clear_released(last, rep) ==
    [last EXCEPT !.keycodes =
        [i \in 1..Len(last.keycodes) |->
            LET released_keycodes == nkro_released_keycodes(last.keycodes[i], rep.keycodes[i])
            IN IF released_keycodes # 0
               THEN BitAnd(last.keycodes[i], BitNot(released_keycodes))
               ELSE last.keycodes[i]]]

\* Mutant: the removal report is sent whether or not a key toggled off.
nkro_non_modifiers_toggled_off_always(last, rep) == TRUE

nkro_non_modifiers_toggled_off(last, rep) ==
    \E i \in 1..Len(last.keycodes) :
        nkro_released_keycodes(last.keycodes[i], rep.keycodes[i]) # 0

\* Mutant: the modifier report carries the whole current report, keys included.
nkro_set_modifier_combined(last, rep) == rep

nkro_set_modifier(last, rep) == [last EXCEPT !.modifier = rep.modifier]

nkro_copy_keycodes(last, rep) == [last EXCEPT !.keycodes = rep.keycodes]

nkro_send_report(rep, last, oks) ==
    LET s0 == SendStart(last)
        changed_modifiers == BitXor(last.modifier, rep.modifier)
        s1 == IF changed_modifiers # 0
              THEN [s0 EXCEPT !.last = nkro_clear_released(last, rep)]
              ELSE s0
        s2 == IF changed_modifiers # 0 /\ nkro_non_modifiers_toggled_off(last, rep)
              THEN nkro_send_report_unchecked(s1, oks)
              ELSE s1
        s3 == IF changed_modifiers # 0 /\ s2.ret = "Ok"
              THEN nkro_send_report_unchecked(
                       [s2 EXCEPT !.last = nkro_set_modifier(s2.last, rep)], oks)
              ELSE s2
        s4 == IF s3.ret = "Ok" /\ keycodes_changed("nkro", rep, s3.last)
              THEN nkro_send_report_unchecked(
                       [s3 EXCEPT !.last = nkro_copy_keycodes(s3.last, rep)], oks)
              ELSE s3
    IN s4

send_report(v, rep, last, oks) ==
    CASE v = "boot" -> boot_send_report(rep, last, oks)
      [] v = "nkro" -> nkro_send_report(rep, last, oks)
      [] v = "media" -> media_send_report(rep, last, oks)
      [] v = "system_control" -> system_control_send_report(rep, last, oks)

(***************************************************************************)
(* end: release_all, then send                                             *)
(***************************************************************************)
nkro_end(rep, last, oks) == nkro_send_report_unchecked(SendStart(last), oks)

end(v, rep, last, oks) ==
    IF v = "nkro" THEN nkro_end(release_all(rep), last, oks)
    ELSE send_report(v, release_all(rep), last, oks)

(***************************************************************************)
(* The state machine.  variant is the keyboard flavour fixed at            *)
(* construction; report / last_report are the fields of Keyboard; host is  *)
(* the last report the transport accepted; call records the last           *)
(* operation: its result, the reports it handed to the transport, the      *)
(* reports it started from (pre) and the operation before it (prev);       *)
(* protocol / default_protocol are the protocol-mode fields of Keyboard.   *)
(***************************************************************************)
\* usbd_hid HidProtocol
HidProtocol_Generic == "Generic"
HidProtocol_Keyboard == "Keyboard"
HidProtocol_Mouse == "Mouse"

HidProtocols == {HidProtocol_Generic, HidProtocol_Keyboard, HidProtocol_Mouse}

SlotVariants == {"boot", "media", "system_control"}

KeyList(v) ==
    CASE v = "boot" -> <<4, 224, 255, 225, 5, 0>>
      [] v = "nkro" -> <<4, 224, 9, 48, 225, 255>>
      [] v = "media" -> <<176, 4, 177, 0, 226, 205>>
      [] v = "system_control" -> <<129, 4, 130, 0, 131, 160>>

InputKeys(v) ==
    {KeyList(v)[i] : i \in 1..(IF MaxKeys < Len(KeyList(v)) THEN MaxKeys ELSE Len(KeyList(v)))}

\* The transport accepts every report before the n-th it is handed in a call and
\* rejects the n-th; the call returns at the first rejection, so later outcomes
\* are never consulted.
Outcomes == {[i \in 1..MaxSends |-> i < n] : n \in 1..(MaxSends + 1)}

Pre == [report |-> report, last_report |-> last_report, protocol |-> protocol]

\* What a call remembers of the call before it: its name, its result, whether
\* it changed the current report and, for a press or release, whether that call
\* was a press or release of the same key.
Prev == [op |-> call.op, ret |-> call.ret, same |-> FALSE,
         changed |-> (report # call.pre.report)]

PrevKey(k) == [Prev EXCEPT !.same = (call.op \in {"press", "release"} /\ call.key = k)]

RECURSIVE Accepted(_, _)
Accepted(sent, h) ==
    IF sent = <<>> THEN h
    ELSE IF sent[Len(sent)].ok THEN sent[Len(sent)].report
    ELSE Accepted(SubSeq(sent, 1, Len(sent) - 1), h)

Init ==
    /\ variant \in Variants
    /\ report = DefaultReport
    /\ last_report = DefaultReport
    /\ host = DefaultReport
    /\ panicked = FALSE
    /\ protocol = HidProtocol_Keyboard
    /\ default_protocol = HidProtocol_Keyboard
    /\ call = [op |-> "new", key |-> 0, handled |-> 0, ret |-> "Ok", sent |-> <<>>,
               answer |-> FALSE,
               pre |-> [report |-> DefaultReport, last_report |-> DefaultReport,
                        protocol |-> HidProtocol_Keyboard],
               prev |-> [op |-> "new", ret |-> "Ok", same |-> FALSE, changed |-> FALSE]]

KeyCall(name, k, r) ==
    /\ report' = r.report
    /\ panicked' = r.panic
    /\ call' = [op |-> name, key |-> k, handled |-> r.handled,
                ret |-> IF r.panic THEN "Panic" ELSE "Ok", sent |-> <<>>,
                answer |-> FALSE, pre |-> Pre, prev |-> PrevKey(k)]
    /\ UNCHANGED <<variant, last_report, host, protocol, default_protocol>>

Press(k) ==
    /\ ~panicked
    /\ KeyCall("press", k, press(variant, report, k))

Release(k) ==
    /\ ~panicked
    /\ KeyCall("release", k, release(variant, report, k))

SendCall(name, rep, s) ==
    /\ report' = rep
    /\ last_report' = s.last
    /\ host' = Accepted(s.sent, host)
    /\ call' = [op |-> name, key |-> 0, handled |-> 0, ret |-> s.ret, sent |-> s.sent,
                answer |-> FALSE, pre |-> Pre, prev |-> Prev]
    /\ UNCHANGED <<variant, panicked, protocol, default_protocol>>

\* Mutant: send_report releases every key of the current report, as end does.
SendReport_releasing(oks) ==
    /\ ~panicked
    /\ SendCall("send_report", release_all(report), send_report(variant, report, last_report, oks))

SendReport(oks) ==
    /\ ~panicked
    /\ SendCall("send_report", report, send_report(variant, report, last_report, oks))

End(oks) ==
    /\ ~panicked
    /\ SendCall("end", release_all(report), end(variant, report, last_report, oks))

Next ==
    \/ \E k \in InputKeys(variant) : Press(k)
    \/ \E k \in InputKeys(variant) : Release(k)
    \/ \E oks \in Outcomes : SendReport(oks)
    \/ \E oks \in Outcomes : End(oks)

Spec == Init /\ [][Next]_vars

(***************************************************************************)
(* The raw accessors: set_report overwrites the current report and         *)
(* last_report_mut hands out the previous report for writing.  The reports *)
(* written are the ones presses of the input keys produce.                 *)
(***************************************************************************)
RECURSIVE PressAll(_, _, _)
PressAll(v, rep, ks) ==
    IF ks = {} THEN rep
    ELSE LET k == CHOOSE x \in ks : \A y \in ks : x <= y
             r == press(v, rep, k)
         IN PressAll(v, r.report, ks \ {k})

Reports(v) == {PressAll(v, DefaultReport, ks) : ks \in SUBSET InputKeys(v)}

set_report(r) ==
    /\ ~panicked
    /\ report' = r
    /\ call' = [op |-> "set_report", key |-> 0, handled |-> 0, ret |-> "Ok", sent |-> <<>>,
                answer |-> FALSE, pre |-> Pre, prev |-> Prev]
    /\ UNCHANGED <<variant, last_report, host, panicked, protocol, default_protocol>>

last_report_mut(r) ==
    /\ ~panicked
    /\ last_report' = r
    /\ call' = [op |-> "last_report_mut", key |-> 0, handled |-> 0, ret |-> "Ok",
                sent |-> <<>>, answer |-> FALSE, pre |-> Pre, prev |-> Prev]
    /\ UNCHANGED <<variant, report, host, panicked, protocol, default_protocol>>

NextAcc ==
    \/ Next
    \/ \E r \in Reports(variant) : set_report(r)
    \/ \E r \in Reports(variant) : last_report_mut(r)

\* The NKRO keyboard with its raw accessors in use.
InitNkro == Init /\ variant = "nkro"

SpecNkro == InitNkro /\ [][NextAcc]_vars

(***************************************************************************)
(* sort_keycodes applied to an arbitrary 6-slot array: the array is held   *)
(* in report.keycodes, as a caller of report_mut can leave it.             *)
(***************************************************************************)
MaxByte == 3

NewCall == [op |-> "new", key |-> 0, handled |-> 0, ret |-> "Ok", sent |-> <<>>,
            answer |-> FALSE,
            pre |-> [report |-> DefaultReport, last_report |-> DefaultReport,
                     protocol |-> HidProtocol_Keyboard],
            prev |-> [op |-> "new", ret |-> "Ok", same |-> FALSE, changed |-> FALSE]]

InitSort ==
    /\ variant = "boot"
    /\ report \in {[modifier |-> 0, keycodes |-> a] : a \in [1..6 -> 0..MaxByte]}
    /\ last_report = DefaultReport
    /\ host = DefaultReport
    /\ panicked = FALSE
    /\ protocol = HidProtocol_Keyboard
    /\ default_protocol = HidProtocol_Keyboard
    /\ call = NewCall

SortKeycodes ==
    /\ ~panicked
    /\ report' = [report EXCEPT !.keycodes = sort_keycodes(@)]
    /\ call' = [op |-> "sort_keycodes", key |-> 0, handled |-> 0, ret |-> "Ok",
                sent |-> <<>>, answer |-> FALSE, pre |-> Pre, prev |-> Prev]
    /\ UNCHANGED <<variant, last_report, host, panicked, protocol, default_protocol>>

NextSort == SortKeycodes

SpecSort == InitSort /\ [][NextSort]_vars

(***************************************************************************)
(* The queries.  Each takes &self: it reads one report and answers.  The   *)
(* key queries are defined per variant; the modifier queries are methods   *)
(* of the Keyboard of keyboard.rs, the type of the NKRO and media          *)
(* variants.                                                               *)
(***************************************************************************)
Answer(b) == [answer |-> b, panic |-> FALSE]

QueryPanic == [answer |-> FALSE, panic |-> TRUE]

\* The loop `for &keycode in keycodes.iter() { if keycode == key { found = true } }`.
found(keycodes, key) == \E i \in 1..Len(keycodes) : keycodes[i] = key

\* Mutant: the key is not validated against the printable range.
boot_is_key_pressed_found_only(rep, key) == Answer(found(rep.keycodes, key))

boot_is_key_pressed(rep, key) == Answer(found(rep.keycodes, key) /\ is_printable(key))

boot_was_key_pressed(last, key) == Answer(found(last.keycodes, key) /\ is_printable(key))

media_is_key_pressed(rep, key) == Answer(found(rep.keycodes, key) /\ is_media(key))

media_was_key_pressed(last, key) == Answer(found(last.keycodes, key) /\ is_media(key))

system_control_is_key_pressed(rep, key) ==
    Answer(found(rep.keycodes, key) /\ is_system_control(key))

system_control_was_key_pressed(last, key) ==
    Answer(found(last.keycodes, key) /\ is_system_control(key))

\* is_printable(key) && keycodes[key_to_index(key)] & bitfield != 0: the index is
\* evaluated only for a printable key.
nkro_is_key_pressed(rep, key) ==
    IF ~is_printable(key) THEN Answer(FALSE)
    ELSE IF key_to_index(key) >= Len(rep.keycodes) THEN QueryPanic
    ELSE Answer(BitAnd(rep.keycodes[key_to_index(key) + 1],
                       key_to_printable_bitfield(key)) # 0)

nkro_was_key_pressed(last, key) ==
    IF ~is_printable(key) THEN Answer(FALSE)
    ELSE IF key_to_index(key) >= Len(last.keycodes) THEN QueryPanic
    ELSE Answer(BitAnd(last.keycodes[key_to_index(key) + 1],
                       key_to_printable_bitfield(key)) # 0)

is_key_pressed(v, rep, key) ==
    CASE v = "boot" -> boot_is_key_pressed(rep, key)
      [] v = "nkro" -> nkro_is_key_pressed(rep, key)
      [] v = "media" -> media_is_key_pressed(rep, key)
      [] v = "system_control" -> system_control_is_key_pressed(rep, key)

was_key_pressed(v, last, key) ==
    CASE v = "boot" -> boot_was_key_pressed(last, key)
      [] v = "nkro" -> nkro_was_key_pressed(last, key)
      [] v = "media" -> media_was_key_pressed(last, key)
      [] v = "system_control" -> system_control_was_key_pressed(last, key)

is_modifier_active(rep, key) ==
    Answer(is_modifier(key) /\ BitAnd(rep.modifier, key_to_modifier_bitfield(key)) # 0)

was_modifier_active(last, key) ==
    Answer(is_modifier(key) /\ BitAnd(last.modifier, key_to_modifier_bitfield(key)) # 0)

is_any_modifier_active(rep) == Answer(rep.modifier > 0)

was_any_modifier_active(last) == Answer(last.modifier > 0)

KeyboardRsVariants == {"nkro", "media"}

QueryCall(name, k, r) ==
    /\ ~panicked
    /\ panicked' = r.panic
    /\ call' = [op |-> name, key |-> k, handled |-> 0,
                ret |-> IF r.panic THEN "Panic" ELSE "Ok", sent |-> <<>>,
                answer |-> r.answer, pre |-> Pre, prev |-> Prev]
    /\ UNCHANGED <<variant, report, last_report, host, protocol, default_protocol>>

IsKeyPressed(k) == QueryCall("is_key_pressed", k, is_key_pressed(variant, report, k))

WasKeyPressed(k) == QueryCall("was_key_pressed", k, was_key_pressed(variant, last_report, k))

IsModifierActive(k) ==
    /\ variant \in KeyboardRsVariants
    /\ QueryCall("is_modifier_active", k, is_modifier_active(report, k))

WasModifierActive(k) ==
    /\ variant \in KeyboardRsVariants
    /\ QueryCall("was_modifier_active", k, was_modifier_active(last_report, k))

IsAnyModifierActive ==
    /\ variant \in KeyboardRsVariants
    /\ QueryCall("is_any_modifier_active", 0, is_any_modifier_active(report))

WasAnyModifierActive ==
    /\ variant \in KeyboardRsVariants
    /\ QueryCall("was_any_modifier_active", 0, was_any_modifier_active(last_report))

NextQuery ==
    \/ \E k \in InputKeys(variant) : Press(k)
    \/ \E k \in InputKeys(variant) : Release(k)
    \/ \E oks \in Outcomes : SendReport(oks)
    \/ \E k \in InputKeys(variant) : IsKeyPressed(k)
    \/ \E k \in InputKeys(variant) : WasKeyPressed(k)
    \/ \E k \in InputKeys(variant) : IsModifierActive(k)
    \/ \E k \in InputKeys(variant) : WasModifierActive(k)
    \/ IsAnyModifierActive
    \/ WasAnyModifierActive

SpecQuery == Init /\ [][NextQuery]_vars

(***************************************************************************)
(* The key queries on a keyboard that was never pressed, for every value   *)
(* of the key argument (key: u8).                                          *)
(***************************************************************************)
u8_MAX == 255

NextInitialQuery ==
    \/ \E k \in 0..u8_MAX : IsKeyPressed(k)
    \/ \E k \in 0..u8_MAX : WasKeyPressed(k)

SpecInitialQuery == Init /\ [][NextInitialQuery]_vars

(***************************************************************************)
(* The last_report accessor called between presses, releases and sends:    *)
(* the call answers with the report the accessor of the variant's Keyboard *)
(* type refers to.                                                         *)
(***************************************************************************)
LastReport ==
    QueryCall("last_report", 0, Answer(last_report_ref(variant, report, last_report)))

NextAccessor ==
    \/ \E k \in InputKeys(variant) : Press(k)
    \/ \E k \in InputKeys(variant) : Release(k)
    \/ \E oks \in Outcomes : SendReport(oks)
    \/ LastReport

SpecAccessor == Init /\ [][NextAccessor]_vars

(***************************************************************************)
(* The protocol mode of the boot keyboard (boot.rs) and of the Keyboard of *)
(* keyboard.rs: set_protocol writes the protocol field, on_usb_reset       *)
(* copies the default_protocol field into it.                              *)
(***************************************************************************)
ProtocolVariants == {"boot", "nkro", "media"}

set_protocol(proto, default, p) == [protocol |-> p, default_protocol |-> default]

\* Mutant: the reset leaves the protocol as it is.
on_usb_reset_keeps(proto, default) == [protocol |-> proto, default_protocol |-> default]

on_usb_reset(proto, default) == [protocol |-> default, default_protocol |-> default]

ProtocolCall(name, r) ==
    /\ ~panicked
    /\ variant \in ProtocolVariants
    /\ protocol' = r.protocol
    /\ default_protocol' = r.default_protocol
    /\ call' = [op |-> name, key |-> 0, handled |-> 0, ret |-> "Ok", sent |-> <<>>,
                answer |-> FALSE, pre |-> Pre, prev |-> Prev]
    /\ UNCHANGED <<variant, report, last_report, host, panicked>>

\* The getter default_protocol(): `self.protocol`.
default_protocol_fn(proto, default) == proto

SetProtocol(p) == ProtocolCall("set_protocol", set_protocol(protocol, default_protocol, p))

DefaultProtocol ==
    /\ variant \in ProtocolVariants
    /\ QueryCall("default_protocol", 0, Answer(default_protocol_fn(protocol, default_protocol)))

OnUsbReset == ProtocolCall("on_usb_reset", on_usb_reset(protocol, default_protocol))

InitProtocol == Init /\ variant \in ProtocolVariants

NextProtocol ==
    \/ \E k \in InputKeys(variant) : Press(k)
    \/ \E k \in InputKeys(variant) : Release(k)
    \/ \E p \in HidProtocols : SetProtocol(p)
    \/ OnUsbReset
    \/ DefaultProtocol

SpecProtocol == InitProtocol /\ [][NextProtocol]_vars

(***************************************************************************)
(* The slot variants filled to capacity: presses only, over more distinct  *)
(* keys of the variant's domain than the report has slots.                 *)
(***************************************************************************)
MaxCapKeys == 7

CapKeyList(v) ==
    CASE v = "boot" -> <<4, 5, 6, 7, 8, 9, 10, 11>>
      [] v = "media" -> <<176, 177, 178, 181, 182, 183, 185, 188>>
      [] v = "system_control" -> <<129, 130, 131, 132, 133, 134, 135, 136>>

CapKeys(v) ==
    {CapKeyList(v)[i] :
        i \in 1..(IF MaxCapKeys < Len(CapKeyList(v)) THEN MaxCapKeys ELSE Len(CapKeyList(v)))}

InitCap == Init /\ variant \in SlotVariants

NextCap == \E k \in CapKeys(variant) : Press(k)

SpecCap == InitCap /\ [][NextCap]_vars

(***************************************************************************)
(* The NKRO variant pressed and released over printable keys on both sides *)
(* of the end of the key array, a modifier and a byte that is neither.     *)
(***************************************************************************)
MaxNkroKeys == 5

NkroKeyList == <<4, 47, 48, 224, 255, 221, 9>>

NkroKeys ==
    {NkroKeyList[i] :
        i \in 1..(IF MaxNkroKeys < Len(NkroKeyList) THEN MaxNkroKeys ELSE Len(NkroKeyList))}

NextNkroKeys ==
    \/ \E k \in NkroKeys : Press(k)
    \/ \E k \in NkroKeys : Release(k)

SpecNkroKeys == InitNkro /\ [][NextNkroKeys]_vars

(***************************************************************************)
(* The slot variants pressed and released over several keys of the domain, *)
(* two modifiers and a byte outside the domain.                            *)
(***************************************************************************)
MaxSlotKeys == 4

SlotKeyList(v) ==
    CASE v = "boot" -> <<4, 5, 224, 225, 6, 255>>
      [] v = "media" -> <<176, 177, 178, 4, 181, 224>>
      [] v = "system_control" -> <<129, 130, 131, 4, 132, 224>>

SlotKeys(v) ==
    {SlotKeyList(v)[i] :
        i \in 1..(IF MaxSlotKeys < Len(SlotKeyList(v)) THEN MaxSlotKeys ELSE Len(SlotKeyList(v)))}

NextSlots ==
    \/ \E k \in SlotKeys(variant) : Press(k)
    \/ \E k \in SlotKeys(variant) : Release(k)

SpecSlots == InitCap /\ [][NextSlots]_vars

(***************************************************************************)
(* xor_swap applied to an arbitrary byte slice, held in report.keycodes,   *)
(* at every pair of indices from 0 to the slice length (the length itself  *)
(* is the first index out of range).                                       *)
(***************************************************************************)
MaxSwapLen == 3

InitSwap ==
    /\ variant = "boot"
    /\ report \in {[modifier |-> 0, keycodes |-> a] : a \in [1..MaxSwapLen -> 0..MaxByte]}
    /\ last_report = DefaultReport
    /\ host = DefaultReport
    /\ panicked = FALSE
    /\ protocol = HidProtocol_Keyboard
    /\ default_protocol = HidProtocol_Keyboard
    /\ call = NewCall

XorSwap(left_idx, right_idx) ==
    /\ ~panicked
    /\ report' = [report EXCEPT !.keycodes = xor_swap(@, left_idx, right_idx)]
    /\ call' = [op |-> "xor_swap", key |-> <<left_idx, right_idx>>, handled |-> 0,
                ret |-> "Ok", sent |-> <<>>, answer |-> FALSE, pre |-> Pre, prev |-> Prev]
    /\ UNCHANGED <<variant, last_report, host, panicked, protocol, default_protocol>>

NextSwap == \E left_idx \in 0..MaxSwapLen : \E right_idx \in 0..MaxSwapLen : XorSwap(left_idx, right_idx)

SpecSwap == InitSwap /\ [][NextSwap]_vars

(***************************************************************************)
(* Vocabulary of the properties                                            *)
(***************************************************************************)
SentReports(sent) == [i \in 1..Len(sent) |-> sent[i].report]

AllAccepted(sent) == \A i \in 1..Len(sent) : sent[i].ok

\* Some key set in a is clear in b (bitfield encoding).
KeyCleared(a, b) == \E i \in 1..6 : BitAnd(a.keycodes[i], BitNot(b.keycodes[i])) # 0

CommonKeys(a, b) == [i \in 1..6 |-> BitAnd(a.keycodes[i], b.keycodes[i])]

BothFieldsDiffer(a, b) == a.modifier # b.modifier /\ a.keycodes # b.keycodes

NkroSend == variant = "nkro" /\ call.op = "send_report"

SlotSend == variant \in SlotVariants /\ call.op = "send_report"

(***************************************************************************)
(* C1.  NKRO: every report the host receives differs from the report it    *)
(* received just before (the empty report initially) in the modifier byte  *)
(* only or in the key bitfield only, never in both at once.                *)
(***************************************************************************)
C1_HostStep ==
    variant = "nkro" =>
        LET seen == <<host>> \o SentReports(SelectSeq(call'.sent, LAMBDA e : e.ok))
        IN \A i \in 1..(Len(seen) - 1) : ~BothFieldsDiffer(seen[i], seen[i + 1])

C1_HostSeesOneFieldChange == [][C1_HostStep]_vars

\* The host has received a modifier change while a key is held in current.
C1_Witness ==
    /\ NkroSend
    /\ call.sent # <<>> /\ AllAccepted(call.sent)
    /\ host.modifier # 0
    /\ report.keycodes # ZERO_KEYS

(***************************************************************************)
(* C2.  NKRO send_report, removal case: when the modifier of previous (M1) *)
(* differs from the modifier of current (M2), some key of previous is      *)
(* clear in current, no key is added and the transport succeeds, exactly   *)
(* two reports are transmitted: (M1, reduced keys) then (M2, reduced keys).*)
(***************************************************************************)
C2_RemovalCase ==
    /\ NkroSend
    /\ call.pre.last_report.modifier # call.pre.report.modifier
    /\ KeyCleared(call.pre.last_report, call.pre.report)
    /\ ~KeyCleared(call.pre.report, call.pre.last_report)
    /\ call.ret = "Ok"

C2_RemovalOrder ==
    C2_RemovalCase =>
        /\ AllAccepted(call.sent)
        /\ SentReports(call.sent) =
             << [modifier |-> call.pre.last_report.modifier,
                 keycodes |-> CommonKeys(call.pre.last_report, call.pre.report)],
                [modifier |-> call.pre.report.modifier,
                 keycodes |-> CommonKeys(call.pre.last_report, call.pre.report)] >>

\* The removal case with a key that stays pressed through it.
C2_Witness ==
    /\ C2_RemovalCase
    /\ call.pre.report.keycodes # ZERO_KEYS

(***************************************************************************)
(* C3.  NKRO send_report, addition case: when the modifier of previous     *)
(* (M1) differs from the modifier of current (M2), no key of previous is   *)
(* removed, some key is added and the transport succeeds, the reports      *)
(* transmitted are (M2, previous keys) then (M2, current keys).            *)
(***************************************************************************)
C3_AdditionCase ==
    /\ NkroSend
    /\ call.pre.last_report.modifier # call.pre.report.modifier
    /\ ~KeyCleared(call.pre.last_report, call.pre.report)
    /\ KeyCleared(call.pre.report, call.pre.last_report)
    /\ call.ret = "Ok"

C3_AdditionOrder ==
    C3_AdditionCase =>
        SentReports(call.sent) =
            << [modifier |-> call.pre.report.modifier,
                keycodes |-> call.pre.last_report.keycodes],
               [modifier |-> call.pre.report.modifier,
                keycodes |-> call.pre.report.keycodes] >>

(***************************************************************************)
(* C4.  NKRO send_report, transport failure: nothing is transmitted after  *)
(* a rejected report, the call returns the failure, and at return previous *)
(* equals the last report the transport accepted in this call (the value   *)
(* previous had before the call if none was accepted).                     *)
(***************************************************************************)
C4_PreviousIsLastAccepted ==
    NkroSend =>
        /\ \A i \in 1..(Len(call.sent) - 1) : call.sent[i].ok
        /\ (call.ret = "Err") <=> (call.sent # <<>> /\ ~call.sent[Len(call.sent)].ok)
        /\ last_report = Accepted(call.sent, call.pre.last_report)

(***************************************************************************)
(* C5.  Recovery by retry, every variant: when send_report returned a      *)
(* transport failure and is called again directly, with the transport      *)
(* succeeding, the host holds a report equal to current.                   *)
(***************************************************************************)
C5_RetryRecovers ==
    ( /\ call.op = "send_report" /\ call.ret = "Ok"
      /\ call.prev.op = "send_report" /\ call.prev.ret = "Err" )
    => host = report

(***************************************************************************)
(* C6.  Slot-array variants: send_report sets previous to current only     *)
(* when the transport accepted the report; when the transport fails, the   *)
(* failure is returned and previous is unchanged.                          *)
(***************************************************************************)
C6_PreviousOnlyOnAccept ==
    SlotSend =>
        /\ (call.sent # <<>> /\ ~AllAccepted(call.sent)) =>
               (call.ret = "Err" /\ last_report = call.pre.last_report)
        /\ last_report # call.pre.last_report =>
               (last_report = report /\ call.sent # <<>> /\ AllAccepted(call.sent))

(***************************************************************************)
(* C7.  Slot-array variants: send_report hands exactly one report, the     *)
(* full current report, to the transport if and only if the keycode slots  *)
(* of current differ from those of the last transmitted snapshot;          *)
(* otherwise it transmits nothing and returns success.                     *)
(***************************************************************************)
C7_SendIffSlotsDiffer ==
    SlotSend =>
        IF call.pre.report.keycodes # call.pre.last_report.keycodes
        THEN SentReports(call.sent) = <<call.pre.report>>
        ELSE call.sent = <<>> /\ call.ret = "Ok"

(***************************************************************************)
(* C8.  end() on every variant: after end() returns success the current    *)
(* report has modifier 0 and no keys, and so has the report the host       *)
(* holds.                                                                  *)
(***************************************************************************)
C8_EndClearsHost ==
    (call.op = "end" /\ call.ret = "Ok") =>
        (report = DefaultReport /\ host = DefaultReport)

C10_TransmissionCount ==
    NkroSend =>
        LET p == call.pre.last_report
            c == call.pre.report
            n == Len(call.sent)
        IN /\ n <= 3
           /\ p = c => n = 0
           /\ p.modifier = c.modifier => n <= 1
           /\ (p.modifier # c.modifier /\ p.keycodes = c.keycodes) => n = 1

\* A modifier-only change sent while keys are held on both sides.
C10_Witness ==
    /\ NkroSend
    /\ call.pre.last_report.modifier # call.pre.report.modifier
    /\ call.pre.last_report.keycodes = call.pre.report.keycodes
    /\ call.pre.report.keycodes # ZERO_KEYS
    /\ Len(call.sent) = 1

(***************************************************************************)
(* C11.  sort_keycodes: for every 6-slot byte array the result has all     *)
(* zero slots after all non-zero slots, the same multiset of non-zero      *)
(* values as the input and the same number of zero slots.                  *)
(***************************************************************************)
ZerosTrail(keys) ==
    \A i \in 1..Len(keys) : \A j \in 1..Len(keys) :
        (i < j /\ keys[i] = 0) => keys[j] = 0

Count(keys, v) == Cardinality({i \in 1..Len(keys) : keys[i] = v})

SameMultiset(a, b) == \A v \in 0..255 : Count(a, v) = Count(b, v)

C11_SortCompacts ==
    call.op = "sort_keycodes" =>
        /\ ZerosTrail(report.keycodes)
        /\ Len(report.keycodes) = Len(call.pre.report.keycodes)
        /\ SameMultiset(call.pre.report.keycodes, report.keycodes)

\* The example of the unit test: (0)(1)(0)(3)(2)(0) becomes (2)(1)(3)(0)(0)(0).
C11_Witness ==
    /\ call.op = "sort_keycodes"
    /\ call.pre.report.keycodes = <<0, 1, 0, 3, 2, 0>>
    /\ report.keycodes = <<2, 1, 3, 0, 0, 0>>

(***************************************************************************)
(* C12.  Slot variants: in every state reached from the empty state by     *)
(* press and release, no zero slot of the current report precedes a        *)
(* non-zero slot.                                                          *)
(***************************************************************************)
C12_SlotsCompact ==
    variant \in SlotVariants => ZerosTrail(report.keycodes)

\* A release took the first of two stored keys out and the second moved up.
C12_Witness ==
    /\ variant \in SlotVariants
    /\ call.op = "release"
    /\ call.pre.report.keycodes[1] = call.key
    /\ call.pre.report.keycodes[2] # 0
    /\ report.keycodes[1] = call.pre.report.keycodes[2]
    /\ report.keycodes[2] = 0

(***************************************************************************)
(* Vocabulary of the slot claims: a slot array is full when no slot is     *)
(* zero, a key is present when a slot holds it, and each variant has its   *)
(* key domain (the boot variant also handles the modifier keys).           *)
(***************************************************************************)
Full(keys) == \A i \in 1..Len(keys) : keys[i] # 0

Present(keys, k) == \E i \in 1..Len(keys) : keys[i] = k

InDomain(v, k) ==
    CASE v = "boot" -> is_printable(k)
      [] v = "nkro" -> is_printable(k)
      [] v = "media" -> is_media(k)
      [] v = "system_control" -> is_system_control(k)

HandledModifier(v, k) == v \in {"boot", "nkro"} /\ is_modifier(k)

(***************************************************************************)
(* C13.  Slot variants, capacity: once six distinct keys of the domain     *)
(* fill the slots, press of a seventh distinct non-modifier key of the     *)
(* domain returns 0 and leaves the report unchanged.                       *)
(***************************************************************************)
C13_SeventhKeyRefused ==
    (/\ variant \in SlotVariants
     /\ call.op = "press"
     /\ Full(call.pre.report.keycodes)
     /\ ~Present(call.pre.report.keycodes, call.key)
     /\ InDomain(variant, call.key)
     /\ ~HandledModifier(variant, call.key))
    => (call.handled = 0 /\ report = call.pre.report)

C13_Witness ==
    /\ variant \in SlotVariants
    /\ call.op = "press"
    /\ Full(call.pre.report.keycodes)
    /\ Cardinality({call.pre.report.keycodes[i] : i \in 1..6}) = 6
    /\ ~Present(call.pre.report.keycodes, call.key)
    /\ InDomain(variant, call.key)
    /\ call.handled = 0

(***************************************************************************)
(* C20.  Slot variants: press of a key that a slot already holds returns 1 *)
(* and leaves the report unchanged, also when all six slots are occupied.  *)
(* (A stored key is a non-zero slot value.)                                *)
(***************************************************************************)
C20_RepressIsNoOp ==
    (/\ variant \in SlotVariants
     /\ call.op = "press"
     /\ call.key # 0
     /\ Present(call.pre.report.keycodes, call.key))
    => (call.handled = 1 /\ report = call.pre.report)

C20_Witness ==
    /\ variant \in SlotVariants
    /\ call.op = "press"
    /\ Full(call.pre.report.keycodes)
    /\ Present(call.pre.report.keycodes, call.key)
    /\ call.handled = 1
    /\ report = call.pre.report

(***************************************************************************)
(* A key is pressed in a report when its modifier bit is set (boot and     *)
(* NKRO modifiers), its bit of the key bitfield is set (NKRO) or a slot    *)
(* holds it (slot variants; a zero slot holds no key).                     *)
(***************************************************************************)
Pressed(v, rep, k) ==
    IF HandledModifier(v, k)
    THEN BitAnd(rep.modifier, key_to_modifier_bitfield(k)) # 0
    ELSE IF v = "nkro"
    THEN /\ is_printable(k)
         /\ key_to_index(k) < Len(rep.keycodes)
         /\ BitAnd(rep.keycodes[key_to_index(k) + 1], key_to_printable_bitfield(k)) # 0
    ELSE k # 0 /\ Present(rep.keycodes, k)

\* The step from the state after press(k) by a release of the same key k, k a
\* key of the variant's domain or a modifier the variant handles.
C14_PressThenRelease ==
    /\ call.op = "press"
    /\ call'.op = "release"
    /\ call'.key = call.key
    /\ (InDomain(variant, call.key) \/ HandledModifier(variant, call.key))

\* The statement as the specification words it: from every reachable state,
\* press(k) followed by release(k) restores the report before the press.  It
\* fails when k was already pressed: the press changes nothing and the release
\* takes k out.
C14_RoundTripFromAnyState ==
    [][C14_PressThenRelease => report' = call.pre.report]_vars

(***************************************************************************)
(* C14.  Round-trip: from every reachable state in which the key k of the  *)
(* variant's domain (printable or modifier for boot and NKRO) is not       *)
(* pressed, press(k) followed by release(k) leaves the current report      *)
(* (modifier byte and slots or bitfield) equal to the report before the    *)
(* press.                                                                  *)
(***************************************************************************)
C14_RoundTrip ==
    [][(C14_PressThenRelease /\ ~Pressed(variant, call.pre.report, call.key))
        => report' = call.pre.report]_vars

\* release(k) right after a press(k) that added k to a report holding other keys.
C14_Witness ==
    /\ call.op = "release"
    /\ call.prev.op = "press"
    /\ call.prev.same
    /\ call.prev.changed
    /\ InDomain(variant, call.key) \/ HandledModifier(variant, call.key)
    /\ report # call.pre.report
    /\ report # DefaultReport

(***************************************************************************)
(* C15.  Release of a key that is not pressed in the current report leaves *)
(* the current report unchanged, and a second consecutive release of the   *)
(* same key leaves it unchanged again.                                     *)
(***************************************************************************)
C15_ReleaseUnpressed ==
    call.op = "release" =>
        /\ ~Pressed(variant, call.pre.report, call.key) => report = call.pre.report
        /\ (call.prev.op = "release" /\ call.prev.same /\ ~call.prev.changed)
              => report = call.pre.report

\* The second of two consecutive releases of a key that is not pressed, other
\* keys being pressed.
C15_Witness ==
    /\ call.op = "release"
    /\ call.prev.op = "release"
    /\ call.prev.same
    /\ ~call.prev.changed
    /\ ~Pressed(variant, call.pre.report, call.key)
    /\ report = call.pre.report
    /\ report # DefaultReport

(***************************************************************************)
(* C16.  Slot variants, domain check of press: a key that is not a         *)
(* modifier the variant handles and is outside the variant's domain (not   *)
(* printable for boot, not a media key for media, not a system-control key *)
(* for system control) makes press return 0 and leave the current report   *)
(* unchanged, whether or not a slot is empty.  The boot press has no       *)
(* domain check: it stores any byte that is not a modifier.                *)
(***************************************************************************)
C16_OutOfDomainRefused ==
    (/\ variant \in SlotVariants
     /\ call.op = "press"
     /\ ~HandledModifier(variant, call.key)
     /\ ~InDomain(variant, call.key))
    => (call.handled = 0 /\ report = call.pre.report)

(***************************************************************************)
(* C17.  NKRO press and release of a printable key: for every key          *)
(* is_printable accepts, press returns 1 and sets exactly bit (key mod 8)  *)
(* of byte (key / 8) of the key bitfield, release returns 1 and clears     *)
(* exactly that bit, and the byte index is inside the report's keycode     *)
(* array.  The array has six bytes and is_printable accepts keys up to     *)
(* 0xDD, so a printable key from 0x30 on indexes past the array.           *)
(***************************************************************************)
C17_PrintableBit ==
    (/\ variant = "nkro"
     /\ call.op \in {"press", "release"}
     /\ is_printable(call.key))
    => /\ key_to_index(call.key) < Len(call.pre.report.keycodes)
       /\ call.ret = "Ok"
       /\ call.handled = 1
       /\ report =
            [call.pre.report EXCEPT !.keycodes[key_to_index(call.key) + 1] =
                IF call.op = "press"
                THEN BitOr(@, key_to_printable_bitfield(call.key))
                ELSE BitAnd(@, BitNot(key_to_printable_bitfield(call.key)))]

(***************************************************************************)
(* C18.  The queries is_key_pressed, was_key_pressed, is_modifier_active,  *)
(* was_modifier_active, is_any_modifier_active and was_any_modifier_active *)
(* change neither the current nor the previous report, and is_key_pressed  *)
(* and was_key_pressed answer false for every key outside the variant's    *)
(* domain, even when a slot holds that byte.                               *)
(***************************************************************************)
QueryOps ==
    {"is_key_pressed", "was_key_pressed", "is_modifier_active", "was_modifier_active",
     "is_any_modifier_active", "was_any_modifier_active"}

C18_QueriesReadOnly ==
    call.op \in QueryOps =>
        /\ report = call.pre.report
        /\ last_report = call.pre.last_report
        /\ (call.op \in {"is_key_pressed", "was_key_pressed"} /\ ~InDomain(variant, call.key))
              => call.answer = FALSE

\* was_key_pressed of a byte outside the domain that a slot of the previous
\* report holds, the current report being different from the previous one.
C18_Witness ==
    /\ call.op = "was_key_pressed"
    /\ ~InDomain(variant, call.key)
    /\ Present(last_report.keycodes, call.key)
    /\ report # last_report
    /\ call.answer = FALSE

(***************************************************************************)
(* C19.  Protocol mode: after any sequence of set_protocol calls,          *)
(* on_usb_reset sets the protocol mode to the default fixed at             *)
(* construction, and neither set_protocol nor on_usb_reset changes that    *)
(* default.                                                                *)
(***************************************************************************)
C19_ResetRestoresDefault ==
    /\ default_protocol = HidProtocol_Keyboard
    /\ call.op = "on_usb_reset" => protocol = HidProtocol_Keyboard

\* A reset right after set_protocol had moved the mode away from the default.
C19_Witness ==
    /\ call.op = "on_usb_reset"
    /\ call.prev.op = "set_protocol"
    /\ call.pre.protocol # HidProtocol_Keyboard
    /\ protocol = HidProtocol_Keyboard

(***************************************************************************)
(* C21.  Slot variants: release always returns 1, for every key and every  *)
(* state, also for a key that is not pressed; for a modifier key on the    *)
(* boot variant it clears exactly that modifier's bit, otherwise it clears *)
(* every slot equal to the key and then compacts the slots.                *)
(***************************************************************************)
Cleared(keys, k) == [i \in 1..Len(keys) |-> IF keys[i] = k THEN 0 ELSE keys[i]]

C22_SwapOrNothing ==
    call.op = "xor_swap" =>
        LET slice == call.pre.report.keycodes
            i == call.key[1] + 1
            j == call.key[2] + 1
        IN /\ IF i <= Len(slice) /\ j <= Len(slice) /\ slice[i] # slice[j]
              THEN report.keycodes = [n \in 1..Len(slice) |->
                                        IF n = i THEN slice[j]
                                        ELSE IF n = j THEN slice[i] ELSE slice[n]]
              ELSE report.keycodes = slice
           /\ SameMultiset(slice, report.keycodes)

\* A swap of a non-zero value with itself: the case an unguarded XOR exchange zeroes.
C22_Witness ==
    /\ call.op = "xor_swap"
    /\ call.key[1] = call.key[2]
    /\ call.key[1] < Len(call.pre.report.keycodes)
    /\ call.pre.report.keycodes[call.key[1] + 1] # 0
    /\ report.keycodes = call.pre.report.keycodes
    /\ call.prev.op = "xor_swap"
    /\ call.prev.changed

(***************************************************************************)
(* C23.  NKRO press and release return 1 exactly when the key is printable *)
(* or a modifier; for any other key they return 0 and leave the current    *)
(* report unchanged.  A printable key from 0x30 on does not return at all: *)
(* the call panics on the index into the six-byte key array.               *)
(***************************************************************************)
C23_HandledIffInDomain ==
    (variant = "nkro" /\ call.op \in {"press", "release"}) =>
        /\ call.ret = "Ok"
        /\ call.handled = (IF is_printable(call.key) \/ is_modifier(call.key) THEN 1 ELSE 0)
        /\ (~is_printable(call.key) /\ ~is_modifier(call.key)) => report = call.pre.report

(***************************************************************************)
(* C24.  The last_report accessor returns the previous (last transmitted)  *)
(* report, not the current one: after a press changed the current report   *)
(* without a send, last_report() still equals the previous report and      *)
(* differs from report().  The accessor of keyboard.rs returns the current *)
(* report.                                                                 *)
(***************************************************************************)
C24_AccessorReturnsPrevious ==
    call.op = "last_report" =>
        /\ call.answer = last_report
        /\ report # last_report => call.answer # report

(***************************************************************************)
(* C25.  default_protocol() returns the default protocol fixed at          *)
(* construction: after set_protocol(p) with p different from the default   *)
(* it still returns the default, the value on_usb_reset restores.  The     *)
(* getter returns the protocol field.                                      *)
(***************************************************************************)
C25_GetterReturnsDefault ==
    call.op = "default_protocol" =>
        /\ call.answer = HidProtocol_Keyboard
        /\ call.answer = on_usb_reset(protocol, default_protocol).protocol

(***************************************************************************)
(* C26.  Frame: press and release never change the previous report, and    *)
(* send_report never changes the current report, on every variant and      *)
(* whether or not the transport succeeds.                                  *)
(***************************************************************************)
C26_Frame ==
    /\ call.op \in {"press", "release"} => last_report = call.pre.last_report
    /\ call.op = "send_report" => report = call.pre.report

\* A send_report the transport rejected that had a previous report to update.
C26_Witness ==
    /\ call.op = "send_report"
    /\ call.ret # "Ok"
    /\ call.pre.report # call.pre.last_report
    /\ report = call.pre.report
    /\ report # DefaultReport

(***************************************************************************)
(* C27.  NKRO: whenever send_report returns success, the previous report   *)
(* equals the current one in the modifier byte and in the whole key        *)
(* bitfield.  Keys toggled on are never copied into the previous report:   *)
(* the copy is guarded by keycodes_changed, which on this variant compares *)
(* the current report with itself.                                         *)
(***************************************************************************)
C27_NkroSuccessSyncsPrevious ==
    (NkroSend /\ call.ret = "Ok") => last_report = report

(***************************************************************************)
(* C28.  Boot: whenever send_report returns success, the report the host   *)
(* holds equals the current one in the modifier byte and in the keycode    *)
(* slots, also when only a modifier changed since the last send.  The send *)
(* is guarded by a comparison of the keycode slots with the previous       *)
(* report, which a rejected send has already overwritten.                  *)
(***************************************************************************)
C28_BootSuccessSyncsHost ==
    (variant = "boot" /\ call.op = "send_report" /\ call.ret = "Ok") => host = report

(***************************************************************************)
(* C29.  Slot variants: in every state reached from the empty report by    *)
(* press and release, no non-zero keycode occupies more than one slot of   *)
(* the current report.                                                     *)
(***************************************************************************)
C29_NoDuplicateSlots ==
    variant \in SlotVariants =>
        \A i \in 1..Len(report.keycodes) : \A j \in 1..Len(report.keycodes) :
            (i < j /\ report.keycodes[i] # 0) => report.keycodes[i] # report.keycodes[j]

\* A press of a key that the second of three occupied slots already holds.
C29_Witness ==
    /\ variant \in SlotVariants
    /\ call.op = "press"
    /\ call.pre.report.keycodes[2] = call.key
    /\ call.pre.report.keycodes[3] # 0
    /\ call.pre.report.keycodes[4] = 0
    /\ call.handled = 1

(***************************************************************************)
(* C30.  Slot variants: release(k) removes only k.  Every non-zero keycode *)
(* other than k that a slot held before the release is still in a slot     *)
(* afterwards, and on the boot variant the modifier byte is unchanged when *)
(* k is not a modifier.                                                    *)
(***************************************************************************)
C30_ReleaseRemovesOnlyKey ==
    (variant \in SlotVariants /\ call.op = "release") =>
        /\ \A i \in 1..Len(call.pre.report.keycodes) :
              (call.pre.report.keycodes[i] # 0 /\ call.pre.report.keycodes[i] # call.key)
                  => Present(report.keycodes, call.pre.report.keycodes[i])
        /\ (variant = "boot" /\ ~is_modifier(call.key))
              => report.modifier = call.pre.report.modifier

\* Boot, a modifier active: release of the key in the first slot, the key of the
\* second slot moving up.
C30_Witness ==
    /\ variant = "boot"
    /\ call.op = "release"
    /\ call.pre.report.modifier # 0
    /\ call.pre.report.keycodes[1] = call.key
    /\ call.pre.report.keycodes[2] # 0
    /\ report.keycodes[1] = call.pre.report.keycodes[2]
    /\ report.keycodes[2] = 0

(***************************************************************************)
(* C31.  In the initial state (empty current and previous reports)         *)
(* is_key_pressed(k) and was_key_pressed(k) return false for every key     *)
(* value k from 0 to 255, the empty-slot value 0 included, on every        *)
(* variant.  The slot scan finds key 0 in an empty slot, and 0 passes      *)
(* is_printable.                                                           *)
(***************************************************************************)
C31_InitialQueriesFalse ==
    (/\ call.op \in {"is_key_pressed", "was_key_pressed"}
     /\ call.pre.report = DefaultReport
     /\ call.pre.last_report = DefaultReport)
    => (call.ret = "Ok" /\ call.answer = FALSE)

====
